---- MODULE Spec2Model ----
(***************************************************************************)
(* Download orchestration of the YouTube downloader server:                *)
(* the job table (storage), the serial download queue and its drain loop   *)
(* (server/routes.ts startDownload / processDownloadQueue /                *)
(* processDownload), and the yt-dlp child process whose events drive the   *)
(* job record.                                                             *)
(*                                                                         *)
(* Every `await` of the source is a point where other handlers may run.    *)
(* An awaited storage call is one step taken when the call settles         *)
(* (resolve or, for the database storage, reject).  A storage call that    *)
(* is issued WITHOUT await (the stderr handler's writes) is applied at     *)
(* once by the in-memory storage and is put in `inflight` by the database  *)
(* storage, whose HTTP queries settle in any order.                        *)
(*                                                                         *)
(* Three specifications share the state: Spec (and FairSpec) is the queue, *)
(* the drain and the download processes; SubmitSpec is the POST            *)
(* /api/download handler from ensureTools to its response, with the drain  *)
(* it starts; FnSpec is one call of a pure helper (format string, stderr   *)
(* parser, formatDuration, formatViews).                                   *)
(***************************************************************************)
EXTENDS Integers, Sequences, FiniteSets, TLC

\* ---------------------------------------------------------------- bounds
MaxJobs == 2
MaxChunks == 3
MaxInflight == 2
MaxStorageFailures == 1
MaxDeletes == 1
MaxRequests == 3

\* ------------------------------------------------------------- constants
Null == -1              \* null of a numeric column (fileSize)
EstimatedSize == 5      \* a size reported by the metadata query
ActualSize == 7         \* stats.size of the produced artifact
NoMatch == -2           \* String.match returned null

Ids == 1..MaxJobs
\* sanitizeFilename(title) + "." + format; two submissions of one video
\* in one format share it.
Filenames == {"a.mp4"}
\* The submitted URL: every submission asks for the same video.
Urls == {"https://youtu.be/v"}

\* A diagnostic chunk, by what the three regular expressions find in it:
\* pct is the first "<number>%" in tenths of a percent (45.2% = 452).
Chunks ==
  { [pct |-> 496,     speed |-> "1.2MiB/s", eta |-> "00:30"],
    [pct |-> 504,     speed |-> "none",     eta |-> "none"],
    [pct |-> 1000,    speed |-> "none",     eta |-> "none"],
    [pct |-> NoMatch, speed |-> "none",     eta |-> "none"] }

VARIABLES
  storageInstance,  \* "DatabaseStorage" or "MemStorage"
  downloads,        \* the job table: id -> record, for the ids that exist
  nextId,           \* the next fresh id (ids are unique)
  files,            \* the filenames present in the downloads directory
  downloadQueue,    \* routes.ts:372
  isProcessing,     \* routes.ts:373
  drain,            \* per startDownload call: its processDownloadQueue run
  proc,             \* per job: the yt-dlp download child process
  lastProgress,     \* per job: the stderr handler's closure variable
  inflight,         \* un-awaited database writes not yet settled
  chunksSeen,       \* number of stderr chunks delivered so far
  storageFailures,  \* number of storage calls rejected so far
  deletes,          \* number of DELETE requests served so far
  progressWrites,   \* per job: the progress values the stderr handler wrote
  fieldWrites,      \* per job: applied writes carrying fileSize / completedAt
  HAS_YTDLP,        \* routes.ts:12
  HAS_FFMPEG,       \* routes.ts:13
  observedTrue,     \* per tool: the flag has been true at some time
  req,              \* per POST /api/download request: where its handler is
  call              \* the last call of a pure helper: function, input, result

jobVars == <<storageInstance, downloads, nextId, files, downloadQueue,
             isProcessing, drain, proc, lastProgress, inflight, chunksSeen,
             storageFailures, deletes, progressWrites, fieldWrites>>
handlerVars == <<HAS_YTDLP, HAS_FFMPEG, observedTrue, req>>

vars == <<storageInstance, downloads, nextId, files, downloadQueue,
          isProcessing, drain, proc, lastProgress, inflight, chunksSeen,
          storageFailures, deletes, progressWrites, fieldWrites,
          HAS_YTDLP, HAS_FFMPEG, observedTrue, req, call>>

Terminal == {"completed", "failed"}

\* --------------------------------------------------------------- storage

\* { ...download, ...updates }
Merge(download, updates) ==
  [f \in DOMAIN download |->
     IF f \in DOMAIN updates THEN updates[f] ELSE download[f]]

createDownload_Dedup(tbl, id, url, filename) ==
  IF \E i \in DOMAIN tbl : tbl[i].url = url
  THEN [i \in DOMAIN tbl |->
          IF tbl[i].url = url
          THEN [url |-> url,
                filename |-> filename, status |-> "pending", progress |-> 0,
                completedAt |-> "null", fileSize |-> Null,
                downloadSpeed |-> "null", timeRemaining |-> "null"]
          ELSE tbl[i]]
  ELSE [i \in DOMAIN tbl \cup {id} |->
          IF i = id
          THEN [url |-> url,
                filename |-> filename, status |-> "pending", progress |-> 0,
                completedAt |-> "null", fileSize |-> Null,
                downloadSpeed |-> "null", timeRemaining |-> "null"]
          ELSE tbl[i]]

createDownload(tbl, id, url, filename) ==
  [i \in DOMAIN tbl \cup {id} |->
     IF i = id
     THEN [url |-> url,
           filename |-> filename, status |-> "pending", progress |-> 0,
           completedAt |-> "null", fileSize |-> Null,
           downloadSpeed |-> "null", timeRemaining |-> "null"]
     ELSE tbl[i]]

getDownload(tbl, id) == id \in DOMAIN tbl

updateDownload_Upsert(tbl, id, updates) ==
  LET all == IF id \in DOMAIN tbl THEN tbl
             ELSE createDownload(tbl, id, "https://youtu.be/v", "a.mp4")
  IN [all EXCEPT ![id] = Merge(@, updates)]

updateDownload(tbl, id, updates) ==
  IF id \in DOMAIN tbl THEN [tbl EXCEPT ![id] = Merge(@, updates)] ELSE tbl

deleteDownload(tbl, id) == [i \in DOMAIN tbl \ {id} |-> tbl[i]]

\* A storage call may reject only when it goes over the network.
MayReject ==
  /\ storageInstance = "DatabaseStorage"
  /\ storageFailures < MaxStorageFailures

\* The applied writes that carry fileSize / completedAt, counted per job.
CountWrite(fw, tbl, id, updates) ==
  IF id \in DOMAIN tbl
  THEN [fw EXCEPT ![id] =
          [fileSize |-> @.fileSize + (IF "fileSize" \in DOMAIN updates THEN 1 ELSE 0),
           completedAt |-> @.completedAt + (IF "completedAt" \in DOMAIN updates THEN 1 ELSE 0)]]
  ELSE fw


\* ----------------------------------------------------------- initial state

NoDrain == [pc |-> "none", id |-> 0, est |-> Null]
NoProc == [st |-> "none", outputPath |-> "none"]

InitJobs ==
  /\ storageInstance \in {"DatabaseStorage", "MemStorage"}
  /\ downloads = [i \in {} |-> NoDrain]
  /\ nextId = 1
  /\ files = {}
  /\ downloadQueue = <<>>
  /\ isProcessing = FALSE
  /\ drain = [d \in Ids |-> NoDrain]
  /\ proc = [j \in Ids |-> NoProc]
  /\ lastProgress = [j \in Ids |-> 0]
  /\ inflight = {}
  /\ chunksSeen = 0
  /\ storageFailures = 0
  /\ deletes = 0
  /\ progressWrites = [j \in Ids |-> <<>>]
  /\ fieldWrites = [j \in Ids |-> [fileSize |-> 0, completedAt |-> 0]]


\* ------------------------------------------------------------ the queue

DrainMayStart_Unguarded(q) == Len(q) # 0

\* startDownload's `if (!isProcessing)` and processDownloadQueue's
\* `if (isProcessing || downloadQueue.length === 0) return`.
DrainMayStart(q) == ~isProcessing /\ ~(isProcessing \/ Len(q) = 0)

Enqueue_Twice(q, id) == Append(Append(q, id), id)

\* downloadQueue.push(downloadId)
Enqueue(q, id) == Append(q, id)

\* downloadQueue.shift()
Dequeue(q) == [id |-> Head(q), rest |-> Tail(q)]

\* The drain runs that are past the isProcessing guard and have not ended.
ActiveDrains == {d \in Ids : drain[d].pc \notin {"none", "done", "rejected"}}

LoopHead_FlagNotSet(d, q) ==
  IF Len(q) > 0
  THEN /\ downloadQueue' = Dequeue(q).rest
       /\ drain' = [drain EXCEPT ![d] =
                      [pc |-> "getDownload", id |-> Dequeue(q).id, est |-> Null]]
       /\ UNCHANGED isProcessing
  ELSE /\ downloadQueue' = q
       /\ drain' = [drain EXCEPT ![d].pc = "done"]
       /\ isProcessing' = FALSE

\* while (downloadQueue.length > 0) { shift; await processDownload(id) ...
\* up to processDownload's first await (storage.getDownload); when the
\* queue is empty the loop ends and isProcessing is reset.
LoopHead(d, q) ==
  IF Len(q) > 0
  THEN /\ downloadQueue' = Dequeue(q).rest
       /\ drain' = [drain EXCEPT ![d] =
                      [pc |-> "getDownload", id |-> Dequeue(q).id, est |-> Null]]
       /\ isProcessing' = TRUE
  ELSE /\ downloadQueue' = q
       /\ drain' = [drain EXCEPT ![d].pc = "done"]
       /\ isProcessing' = FALSE

AfterProcessDownload_OneJob(d) ==
  /\ drain' = [drain EXCEPT ![d].pc = "done"]
  /\ isProcessing' = FALSE

\* processDownload has returned: the inter-job delay when ids are queued,
\* else the loop condition fails and the drain ends.
AfterProcessDownload(d) ==
  IF Len(downloadQueue) > 0
  THEN /\ drain' = [drain EXCEPT ![d].pc = "delay"]
       /\ UNCHANGED isProcessing
  ELSE /\ drain' = [drain EXCEPT ![d].pc = "done"]
       /\ isProcessing' = FALSE

\* POST /api/download, after the preflight and the metadata query:
\* storage.createDownload, then startDownload (push, and the drain's start
\* when none is running).  Ids are opaque and unique; the model numbers the
\* jobs in the order of their push.
Submit(url, filename) ==
  /\ nextId <= MaxJobs
  /\ downloads' = createDownload(downloads, nextId, url, filename)
  /\ nextId' = nextId + 1
  /\ LET q == Enqueue(downloadQueue, nextId) IN
       IF DrainMayStart(q)
       THEN LoopHead(nextId, q)
       ELSE /\ downloadQueue' = q
            /\ UNCHANGED <<isProcessing, drain>>
  /\ UNCHANGED <<storageInstance, deletes, files, proc, lastProgress, inflight,
                 chunksSeen, storageFailures, progressWrites, fieldWrites>>

\* A submission whose preflight and metadata query succeeded.
PostDownload(url, filename) ==
  /\ Submit(url, filename)
  /\ UNCHANGED <<handlerVars, call>>

\* setTimeout(resolve, 1000) fired: the next loop iteration.
DrainDelay(d) ==
  /\ drain[d].pc = "delay"
  /\ LoopHead(d, downloadQueue)
  /\ UNCHANGED <<handlerVars, call, storageInstance, deletes, downloads, nextId, files, proc,
                 lastProgress, inflight, chunksSeen, storageFailures,
                 progressWrites, fieldWrites>>

\* ------------------------------------------------------ processDownload

\* const ytDlp = spawn("yt-dlp", args); let lastProgress = 0
SpawnOutcomes == {"running", "spawnFailed"}

SpawnDownload(j, outcome) ==
  /\ proc' = [proc EXCEPT ![j].st = outcome]
  /\ lastProgress' = [lastProgress EXCEPT ![j] = 0]

\* const download = await storage.getDownload(downloadId)   (outside the try)
DrainGetDownload(d, ok) ==
  /\ drain[d].pc = "getDownload"
  /\ ok \/ MayReject
  /\ LET j == drain[d].id IN
     IF ~ok
     THEN /\ drain' = [drain EXCEPT ![d].pc = "rejected"]
          /\ storageFailures' = storageFailures + 1
          /\ UNCHANGED <<isProcessing, proc>>
     ELSE IF ~getDownload(downloads, j)
     THEN /\ AfterProcessDownload(d)
          /\ UNCHANGED <<storageFailures, proc>>
     ELSE /\ drain' = [drain EXCEPT ![d].pc = "setDownloading"]
          /\ proc' = [proc EXCEPT ![j].outputPath = downloads[j].filename]
          /\ UNCHANGED <<storageFailures, isProcessing>>
  /\ UNCHANGED <<handlerVars, call, storageInstance, deletes, downloads, nextId, files, downloadQueue,
                 lastProgress, inflight, chunksSeen, progressWrites,
                 fieldWrites>>

\* await storage.updateDownload(id, { status: "downloading", progress: 0 })
\* and the start of estimateFileSize.
DrainSetDownloading(d, ok) ==
  /\ drain[d].pc = "setDownloading"
  /\ ok \/ MayReject
  /\ IF ok
     THEN /\ downloads' = updateDownload(downloads, drain[d].id,
                             [status |-> "downloading", progress |-> 0])
          /\ drain' = [drain EXCEPT ![d].pc = "estimate"]
          /\ UNCHANGED storageFailures
     ELSE /\ drain' = [drain EXCEPT ![d].pc = "catch"]
          /\ storageFailures' = storageFailures + 1
          /\ UNCHANGED downloads
  /\ UNCHANGED <<handlerVars, call, storageInstance, deletes, nextId, files, downloadQueue, isProcessing,
                 proc, lastProgress, inflight, chunksSeen, progressWrites,
                 fieldWrites>>

\* One run of the metadata process started by estimateFileSize: whether it
\* could be spawned, its exit code, what its stdout holds (nothing, text that
\* is no JSON, a document) and the size the document yields (Null when it
\* names none).
EstimateRuns ==
  {[child |-> "spawnFailed", code |-> -2, text |-> "", size |-> Null]}
  \cup {[child |-> "closed", code |-> c, text |-> t, size |-> Null] :
          c \in {0, 1}, t \in {"", "not json", "json"}}
  \cup {[child |-> "closed", code |-> c, text |-> "json",
         size |-> EstimatedSize] : c \in {0, 1}}

estimateFileSize_Unparsed(run) ==
  IF run.child = "spawnFailed" THEN Null
  ELSE IF run.code = 0 \/ run.text # ""
  THEN IF run.text = "" THEN Null ELSE EstimatedSize
  ELSE Null

\* estimateFileSize: resolve(null) on 'error'; on 'close' the output is
\* parsed when code === 0 || output, a parse failure resolves null.
estimateFileSize(run) ==
  IF run.child = "spawnFailed" THEN Null
  ELSE IF run.code = 0 \/ run.text # ""
  THEN IF run.text = "json" THEN run.size ELSE Null
  ELSE Null

\* estimateFileSize resolved (its process closed or failed): a size or
\* null.  With null the code goes on to spawn without another await.
DrainEstimate(d, est, outcome) ==
  /\ drain[d].pc = "estimate"
  /\ IF est # Null
     THEN /\ drain' = [drain EXCEPT ![d].pc = "writeEstimate", ![d].est = est]
          /\ UNCHANGED <<isProcessing, proc, lastProgress>>
     ELSE /\ SpawnDownload(drain[d].id, outcome)
          /\ AfterProcessDownload(d)
  /\ UNCHANGED <<handlerVars, call, storageInstance, deletes, downloads, nextId, files, downloadQueue,
                 inflight, chunksSeen, storageFailures, progressWrites,
                 fieldWrites>>

\* await storage.updateDownload(id, { fileSize: estimatedSize }), then the
\* spawn of the download process and processDownload's return.
DrainWriteEstimate(d, ok, outcome) ==
  /\ drain[d].pc = "writeEstimate"
  /\ ok \/ MayReject
  /\ LET j == drain[d].id
         u == [fileSize |-> drain[d].est] IN
     IF ok
     THEN /\ downloads' = updateDownload(downloads, j, u)
          /\ fieldWrites' = CountWrite(fieldWrites, downloads, j, u)
          /\ SpawnDownload(j, outcome)
          /\ AfterProcessDownload(d)
          /\ UNCHANGED storageFailures
     ELSE /\ drain' = [drain EXCEPT ![d].pc = "catch"]
          /\ storageFailures' = storageFailures + 1
          /\ UNCHANGED <<downloads, fieldWrites, isProcessing, proc,
                         lastProgress>>
  /\ UNCHANGED <<handlerVars, call, storageInstance, deletes, nextId, files, downloadQueue, inflight,
                 chunksSeen, progressWrites>>

\* catch (error) { await storage.updateDownload(id, { status: "failed" }) }
DrainCatch(d, ok) ==
  /\ drain[d].pc = "catch"
  /\ ok \/ MayReject
  /\ IF ok
     THEN /\ downloads' = updateDownload(downloads, drain[d].id,
                             [status |-> "failed"])
          /\ AfterProcessDownload(d)
          /\ UNCHANGED storageFailures
     ELSE /\ drain' = [drain EXCEPT ![d].pc = "rejected"]
          /\ storageFailures' = storageFailures + 1
          /\ UNCHANGED <<downloads, isProcessing>>
  /\ UNCHANGED <<handlerVars, call, storageInstance, deletes, nextId, files, downloadQueue, proc,
                 lastProgress, inflight, chunksSeen, progressWrites,
                 fieldWrites>>


\* ------------------------------------------- the download process's events

\* Math.round(parseFloat(progressMatch[1])), on tenths of a percent.
Round(tenths) == (tenths + 5) \div 10

ProgressWrite(j, n) == [id |-> j, field |-> "progress", num |-> n, str |-> ""]
SpeedWrite(j, s) == [id |-> j, field |-> "downloadSpeed", num |-> 0, str |-> s]
EtaWrite(j, s) == [id |-> j, field |-> "timeRemaining", num |-> 0, str |-> s]

\* The `updates` argument of one un-awaited write.
Updates(w) ==
  IF w.field = "progress" THEN [progress |-> w.num]
  ELSE IF w.field = "downloadSpeed" THEN [downloadSpeed |-> w.str]
  ELSE [timeRemaining |-> w.str]

\* if (progressMatch) { ...; if (progress !== lastProgress) { write } }
ProgressChanged(j, c) == c.pct # NoMatch /\ Round(c.pct) # lastProgress[j]

\* The storage.updateDownload calls one stderr chunk makes (none awaited).
ChunkWrites(j, c) ==
  (IF ProgressChanged(j, c) THEN {ProgressWrite(j, Round(c.pct))} ELSE {})
  \cup (IF c.speed # "none" THEN {SpeedWrite(j, c.speed)} ELSE {})
  \cup (IF c.eta # "none" THEN {EtaWrite(j, c.eta)} ELSE {})

RECURSIVE ApplyAll(_, _)
ApplyAll(tbl, ws) ==
  IF ws = {} THEN tbl
  ELSE LET w == CHOOSE x \in ws : TRUE
       IN ApplyAll(updateDownload(tbl, w.id, Updates(w)), ws \ {w})

\* ytDlp.stderr.on("data", ...)
StderrData(j, c) ==
  /\ proc[j].st = "running"
  /\ chunksSeen < MaxChunks
  /\ chunksSeen' = chunksSeen + 1
  /\ lastProgress' = [lastProgress EXCEPT ![j] =
                        IF ProgressChanged(j, c) THEN Round(c.pct) ELSE @]
  /\ progressWrites' = [progressWrites EXCEPT ![j] =
                        IF ProgressChanged(j, c) THEN Append(@, Round(c.pct)) ELSE @]
  /\ IF storageInstance = "MemStorage"
     THEN /\ downloads' = ApplyAll(downloads, ChunkWrites(j, c))
          /\ UNCHANGED inflight
     ELSE /\ Cardinality(inflight \cup ChunkWrites(j, c)) <= MaxInflight
          /\ inflight' = inflight \cup ChunkWrites(j, c)
          /\ UNCHANGED downloads
  /\ UNCHANGED <<handlerVars, call, storageInstance, deletes, nextId, files, downloadQueue, isProcessing,
                 drain, proc, storageFailures, fieldWrites>>

\* An un-awaited database write settles: applied, or rejected and lost.
WriteSettles(w, ok) ==
  /\ w \in inflight
  /\ ok \/ MayReject
  /\ inflight' = inflight \ {w}
  /\ IF ok
     THEN /\ downloads' = updateDownload(downloads, w.id, Updates(w))
          /\ UNCHANGED storageFailures
     ELSE /\ storageFailures' = storageFailures + 1
          /\ UNCHANGED downloads
  /\ UNCHANGED <<handlerVars, call, storageInstance, deletes, nextId, files, downloadQueue, isProcessing,
                 drain, proc, lastProgress, chunksSeen, progressWrites,
                 fieldWrites>>

\* The exit codes a 'close' can carry: any after a run, the negative errno
\* after a failed spawn.
CloseCodes(j) ==
  IF proc[j].st = "running" THEN {0, 1}
  ELSE IF proc[j].st = "errored" THEN {-2}
  ELSE {}

CloseUpdates_CodeIgnored(code, fileSize) ==
  [status |-> "completed", progress |-> 100, fileSize |-> fileSize,
   completedAt |-> "Date"]

CloseUpdates_FailedStamped(code, fileSize) ==
  IF code = 0
  THEN [status |-> "completed", progress |-> 100, fileSize |-> fileSize,
        completedAt |-> "Date"]
  ELSE [status |-> "failed", completedAt |-> "Date"]

\* The close handler's update: completed on code 0, else failed.
CloseUpdates(code, fileSize) ==
  IF code = 0
  THEN [status |-> "completed", progress |-> 100, fileSize |-> fileSize,
        completedAt |-> "Date"]
  ELSE [status |-> "failed"]

\* let fileSize = 0; if (fs.existsSync(outputPath)) fileSize = stats.size
StatSize(disk, path) == IF path \in disk THEN ActualSize ELSE 0

\* ytDlp.on("close", async (code) => ...): a process that ran may have
\* produced the artifact at outputPath.
ProcClose(j, code, produced, ok) ==
  /\ code \in CloseCodes(j)
  /\ ok \/ MayReject
  /\ produced => proc[j].st = "running"
  /\ proc' = [proc EXCEPT ![j].st = "closed"]
  /\ files' = IF produced THEN files \cup {proc[j].outputPath} ELSE files
  /\ LET u == CloseUpdates(code, StatSize(files', proc[j].outputPath)) IN
     IF ok
     THEN /\ downloads' = updateDownload(downloads, j, u)
          /\ fieldWrites' = CountWrite(fieldWrites, downloads, j, u)
          /\ UNCHANGED storageFailures
     ELSE /\ storageFailures' = storageFailures + 1
          /\ UNCHANGED <<downloads, fieldWrites>>
  /\ lastProgress' = [lastProgress EXCEPT ![j] = 0]
  /\ progressWrites' = [progressWrites EXCEPT ![j] = <<>>]
  /\ UNCHANGED <<handlerVars, call, storageInstance, deletes, nextId, downloadQueue,
                 isProcessing, drain, inflight, chunksSeen>>

\* ytDlp.on("error", async (error) => ...): the spawn failed.
ProcError(j, ok) ==
  /\ proc[j].st = "spawnFailed"
  /\ ok \/ MayReject
  /\ proc' = [proc EXCEPT ![j].st = "errored"]
  /\ IF ok
     THEN /\ downloads' = updateDownload(downloads, j, [status |-> "failed"])
          /\ UNCHANGED storageFailures
     ELSE /\ storageFailures' = storageFailures + 1
          /\ UNCHANGED downloads
  /\ UNCHANGED <<handlerVars, call, storageInstance, deletes, nextId, files, downloadQueue, isProcessing,
                 drain, lastProgress, inflight, chunksSeen, progressWrites,
                 fieldWrites>>

\* DELETE /api/downloads/:id: unlink the file when present, then delete
\* the record.
DeleteDownload(j) ==
  /\ deletes < MaxDeletes
  /\ deletes' = deletes + 1
  /\ getDownload(downloads, j)
  /\ files' = files \ {downloads[j].filename}
  /\ downloads' = deleteDownload(downloads, j)
  /\ UNCHANGED <<handlerVars, call, storageInstance, nextId, downloadQueue, isProcessing, drain,
                 proc, lastProgress, inflight, chunksSeen, storageFailures,
                 progressWrites, fieldWrites>>

\* --------------------------------------------------- POST /api/download

Reqs == 1..MaxRequests
\* The formats a request asks for: one video format, one audio format.
RequestFormats == {"mp4", "mp3"}
\* What getVideoInfo resolves with: success, or a typed failure.
InfoResults == {"success", "missing_binary", "video_unavailable"}
Tools == {"yt-dlp", "ffmpeg"}

NoJob == [id |-> 0, status |-> "none", progress |-> -1, completedAt |-> "none"]
NoReq == [pc |-> "idle", format |-> "none", preflight |-> FALSE,
          ytdlp |-> FALSE, ffmpeg |-> FALSE, info |-> "none",
          creates |-> 0, pushes |-> 0, res |-> "none", job |-> NoJob]

\* res.json(download): the object createDownload resolved with.
Body(tbl, id) ==
  [id |-> id, status |-> tbl[id].status, progress |-> tbl[id].progress,
   completedAt |-> tbl[id].completedAt]

Preflight_FfmpegFirst(tools, format) ==
  IF (format = "mp3" \/ format = "wav") /\ ~tools.ffmpeg
  THEN "503 FFmpeg is required"
  ELSE IF ~tools.ytdlp THEN "503 yt-dlp missing"
  ELSE "ok"

Preflight_VideoOnly(tools, format) ==
  IF ~tools.ytdlp THEN "503 yt-dlp missing" ELSE "ok"

\* if (!tools.ytdlp) return 503; if (requiresFFmpeg && !tools.ffmpeg)
\* return 503
Preflight(tools, format) ==
  IF ~tools.ytdlp THEN "503 yt-dlp missing"
  ELSE IF (format = "mp3" \/ format = "wav") /\ ~tools.ffmpeg
  THEN "503 FFmpeg is required"
  ELSE "ok"

\* ensureTools has returned { ytdlp, ffmpeg }: the handler checks the
\* preconditions and, when they hold, starts getVideoInfo.
AfterEnsureTools(r, format, tools) ==
  req' = [req EXCEPT ![r] =
            IF Preflight(tools, format) = "ok"
            THEN [@ EXCEPT !.pc = "videoInfo", !.format = format,
                           !.preflight = TRUE,
                           !.ytdlp = tools.ytdlp, !.ffmpeg = tools.ffmpeg]
            ELSE [@ EXCEPT !.pc = "done", !.format = format,
                           !.preflight = TRUE,
                           !.ytdlp = tools.ytdlp, !.ffmpeg = tools.ffmpeg,
                           !.res = Preflight(tools, format)]]

\* if (!HAS_YTDLP) ... / if (!HAS_FFMPEG) ...
MayProbe(flag) == ~flag

\* The flags a step of ensureTools read, added to those seen true so far.
Observe(readYtdlp, readFfmpeg) ==
  [t \in Tools |->
     \/ observedTrue[t]
     \/ t = "yt-dlp" /\ readYtdlp
     \/ t = "ffmpeg" /\ readFfmpeg]

\* A request arrives and calls ensureTools, which starts the probe of the
\* first tool whose flag reads false, or returns the two flags.
PostRequest(r, format) ==
  /\ req[r].pc = "idle"
  /\ \A q \in Reqs : q < r => req[q].pc # "idle"
  /\ IF MayProbe(HAS_YTDLP)
     THEN req' = [req EXCEPT ![r].pc = "probeYtdlp", ![r].format = format]
     ELSE IF MayProbe(HAS_FFMPEG)
     THEN req' = [req EXCEPT ![r].pc = "probeFfmpeg", ![r].format = format]
     ELSE AfterEnsureTools(r, format,
                           [ytdlp |-> HAS_YTDLP, ffmpeg |-> HAS_FFMPEG])
  /\ observedTrue' = Observe(HAS_YTDLP, HAS_YTDLP /\ HAS_FFMPEG)
  /\ UNCHANGED <<jobVars, HAS_YTDLP, HAS_FFMPEG, call>>

\* HAS_YTDLP = await checkBinaryExists("yt-dlp") has resolved.
YtdlpProbed(r, found) ==
  /\ req[r].pc = "probeYtdlp"
  /\ HAS_YTDLP' = found
  /\ observedTrue' = Observe(found /\ HAS_FFMPEG, HAS_FFMPEG)
  /\ IF MayProbe(HAS_FFMPEG)
     THEN req' = [req EXCEPT ![r].pc = "probeFfmpeg"]
     ELSE AfterEnsureTools(r, req[r].format,
                           [ytdlp |-> found, ffmpeg |-> HAS_FFMPEG])
  /\ UNCHANGED <<jobVars, HAS_FFMPEG, call>>

\* HAS_FFMPEG = await checkBinaryExists("ffmpeg") has resolved.
FfmpegProbed(r, found) ==
  /\ req[r].pc = "probeFfmpeg"
  /\ HAS_FFMPEG' = found
  /\ observedTrue' = Observe(HAS_YTDLP, found)
  /\ AfterEnsureTools(r, req[r].format,
                      [ytdlp |-> HAS_YTDLP, ffmpeg |-> found])
  /\ UNCHANGED <<jobVars, HAS_YTDLP, call>>

\* const infoResult = await getVideoInfo(url) has resolved: a 400 on a
\* failure, else the call of storage.createDownload.
VideoInfoDone(r, info) ==
  /\ req[r].pc = "videoInfo"
  /\ req' = [req EXCEPT ![r] =
               IF info = "success"
               THEN [@ EXCEPT !.pc = "create", !.info = info, !.creates = @ + 1]
               ELSE [@ EXCEPT !.pc = "done", !.info = info, !.res = "400"]]
  /\ UNCHANGED <<jobVars, HAS_YTDLP, HAS_FFMPEG, observedTrue, call>>

\* How many times this step pushed id: the growth of downloadQueue, and
\* the id a drain started in this step shifted off it.
Pushed(id) ==
  Len(downloadQueue') - Len(downloadQueue)
  + (IF drain'[id] # drain[id] THEN 1 ELSE 0)

\* await storage.createDownload(...) has settled: startDownload and
\* res.json(download), or the handler's catch (500).
CreateSettled(r, ok, url, filename) ==
  /\ req[r].pc = "create"
  /\ ok \/ MayReject
  /\ IF ok
     THEN /\ Submit(url, filename)
          /\ req' = [req EXCEPT ![r].pc = "done",
                                ![r].pushes = @ + Pushed(nextId),
                                ![r].res = "200",
                                ![r].job = Body(downloads', nextId)]
     ELSE /\ req' = [req EXCEPT ![r].pc = "done", ![r].res = "500"]
          /\ storageFailures' = storageFailures + 1
          /\ UNCHANGED <<storageInstance, downloads, nextId, files,
                         downloadQueue, isProcessing, drain, proc,
                         lastProgress, inflight, chunksSeen, deletes,
                         progressWrites, fieldWrites>>
  /\ UNCHANGED <<HAS_YTDLP, HAS_FFMPEG, observedTrue, call>>

\* ------------------------------------------------------ the pure helpers

\* No helper has been called yet.
NoCall == [fn |-> "none"]

Qualities == {"1080p", "720p", "480p", "360p"}
Formats == {"mp4", "webm", "mp3", "wav"}

formatString_No480(downloadQuality, downloadFormat) ==
  IF downloadFormat = "mp3" THEN "bestaudio/best"
  ELSE IF downloadFormat = "wav" THEN "bestaudio/best"
  ELSE IF downloadQuality = "1080p"
       THEN "bestvideo[height<=1080]+bestaudio/best[height<=1080]"
  ELSE IF downloadQuality = "720p"
       THEN "bestvideo[height<=720]+bestaudio/best[height<=720]"
  ELSE IF downloadQuality = "360p"
       THEN "bestvideo[height<=360]+bestaudio/best[height<=360]"
  ELSE "best"

\* let formatString = "best"; if (downloadFormat === "mp3") ... else ...
formatString(downloadQuality, downloadFormat) ==
  IF downloadFormat = "mp3" THEN "bestaudio/best"
  ELSE IF downloadFormat = "wav" THEN "bestaudio/best"
  ELSE IF downloadQuality = "1080p"
       THEN "bestvideo[height<=1080]+bestaudio/best[height<=1080]"
  ELSE IF downloadQuality = "720p"
       THEN "bestvideo[height<=720]+bestaudio/best[height<=720]"
  ELSE IF downloadQuality = "480p"
       THEN "bestvideo[height<=480]+bestaudio/best[height<=480]"
  ELSE IF downloadQuality = "360p"
       THEN "bestvideo[height<=360]+bestaudio/best[height<=360]"
  ELSE "best"

\* processDownload picks the format string for the job it starts.
CallFormatString(q, f) ==
  /\ call = NoCall
  /\ call' = [fn |-> "formatString", quality |-> q, format |-> f,
              out |-> formatString(q, f)]
  /\ UNCHANGED <<jobVars, handlerVars>>

\* --- the stderr parser (routes.ts:470-495), on the characters of a chunk

MaxTokens == 4

Digit == {"0", "1", "2", "3", "4", "5", "6", "7", "8", "9"}
DigitVal(c) == CHOOSE d \in 0..9 : ToString(d) = c

\* The character at index i (from 1), "" outside the string.
Ch(s, i) == IF 1 <= i /\ i <= Len(s) THEN SubSeq(s, i, i) ELSE ""

\* The literal lit stands at index i.
At(s, i, lit) ==
  /\ i + Len(lit) - 1 <= Len(s)
  /\ SubSeq(s, i, i + Len(lit) - 1) = lit

\* \d* from index i, greedy: the index after the last digit taken.
RECURSIVE DigitsEnd(_, _)
DigitsEnd(s, i) == IF Ch(s, i) \in Digit THEN DigitsEnd(s, i + 1) ELSE i

\* \d+(?:\.\d+)? from index i: the index after the match, 0 when none.
\* What follows it in both patterns is no digit and no ".", so no shorter
\* match can let the pattern go on.
NumberEnd(s, i) ==
  LET e == DigitsEnd(s, i) IN
  IF e = i THEN 0
  ELSE IF Ch(s, e) = "." /\ DigitsEnd(s, e + 1) > e + 1
  THEN DigitsEnd(s, e + 1)
  ELSE e

\* /(\d+(?:\.\d+)?)%/ from index i: the index after group 1, 0 when none.
PercentAt(s, i) ==
  LET e == NumberEnd(s, i) IN IF e # 0 /\ Ch(s, e) = "%" THEN e ELSE 0

\* /(\d+(?:\.\d+)?(?:K|M|G)?iB\/s)/ from index i.
SpeedAt(s, i) ==
  LET e == NumberEnd(s, i) IN
  IF e = 0 THEN 0
  ELSE IF Ch(s, e) \in {"K", "M", "G"} /\ At(s, e + 1, "iB/s") THEN e + 5
  ELSE IF At(s, e, "iB/s") THEN e + 4
  ELSE 0

\* /ETA (\d+:\d+:\d+|\d+:\d+)/ from index i: the index after group 1.
EtaAt(s, i) ==
  IF ~At(s, i, "ETA ") THEN 0
  ELSE LET b == DigitsEnd(s, i + 4) IN
       IF b = i + 4 \/ Ch(s, b) # ":" THEN 0
       ELSE LET c == DigitsEnd(s, b + 1) IN
            IF c = b + 1 THEN 0
            ELSE IF Ch(s, c) = ":" /\ DigitsEnd(s, c + 1) > c + 1
            THEN DigitsEnd(s, c + 1)
            ELSE c

Leftmost_Last(starts) ==
  IF starts = {} THEN 0
  ELSE CHOOSE i \in starts : \A k \in starts : k <= i

\* String.match without the g flag: the match at the least index.
Leftmost(starts) ==
  IF starts = {} THEN 0
  ELSE CHOOSE i \in starts : \A k \in starts : i <= k

RECURSIVE ToInt(_)
ToInt(digits) ==
  IF digits = "" THEN 0
  ELSE 10 * ToInt(SubSeq(digits, 1, Len(digits) - 1))
       + DigitVal(Ch(digits, Len(digits)))

\* parseFloat(group 1) in tenths of a percent, further digits dropped:
\* Math.round turns on the first decimal alone.
Tenths(number) ==
  LET e == DigitsEnd(number, 1) IN
  10 * ToInt(SubSeq(number, 1, e - 1))
  + (IF e < Len(number) THEN DigitVal(Ch(number, e + 1)) ELSE 0)

\* The three matches of one chunk, in the shape of Chunks.
ParseChunk(output) ==
  LET p == Leftmost({i \in 1..Len(output) : PercentAt(output, i) # 0})
      v == Leftmost({i \in 1..Len(output) : SpeedAt(output, i) # 0})
      t == Leftmost({i \in 1..Len(output) : EtaAt(output, i) # 0})
  IN [pct |-> IF p = 0 THEN NoMatch
              ELSE Tenths(SubSeq(output, p, PercentAt(output, p) - 1)),
      speed |-> IF v = 0 THEN "none"
                ELSE SubSeq(output, v, SpeedAt(output, v) - 1),
      eta |-> IF t = 0 THEN "none"
              ELSE SubSeq(output, t + 4, EtaAt(output, t) - 1)]

\* The pieces of yt-dlp's progress lines, with what each carries: its
\* percent (rounded), its rate, its ETA.
Tokens ==
  { [text |-> "  45.2%",      pct |-> 45,      speed |-> "none", eta |-> "none"],
    [text |-> " 99.5%",       pct |-> 100,     speed |-> "none", eta |-> "none"],
    [text |-> " of 10MiB",    pct |-> NoMatch, speed |-> "none", eta |-> "none"],
    [text |-> " at 1.2MiB/s", pct |-> NoMatch, speed |-> "1.2MiB/s", eta |-> "none"],
    [text |-> " at 512KiB/s", pct |-> NoMatch, speed |-> "512KiB/s", eta |-> "none"],
    [text |-> " ETA 00:30",   pct |-> NoMatch, speed |-> "none", eta |-> "00:30"],
    [text |-> " ETA 1:02:03", pct |-> NoMatch, speed |-> "none", eta |-> "1:02:03"],
    [text |-> " ETA Unknown", pct |-> NoMatch, speed |-> "none", eta |-> "none"] }

TokenSeqs == UNION {[1..n -> Tokens] : n \in 0..MaxTokens}

RECURSIVE Concat(_)
Concat(toks) ==
  IF toks = <<>> THEN "" ELSE Head(toks).text \o Concat(Tail(toks))

\* One "data" event: the chunk is parsed.
CallParseChunk(toks) ==
  /\ call = NoCall
  /\ call' = [fn |-> "parseChunk", tokens |-> toks,
              out |-> ParseChunk(Concat(toks))]
  /\ UNCHANGED <<jobVars, handlerVars>>

\* --- formatDuration (routes.ts:596-606)

MaxSeconds == 3700

\* The durations considered: absent, every count up to MaxSeconds, and
\* some of ten hours and more.
Durations == {Null} \cup 0..MaxSeconds \cup {36000, 86399, 360000}

PadStart2_None(str) == str

\* str.padStart(2, '0')
PadStart2(str) == IF Len(str) < 2 THEN "0" \o str ELSE str

\* Absent (undefined, null) and 0 are falsy.
formatDuration(seconds) ==
  IF seconds = Null \/ seconds = 0 THEN "Unknown"
  ELSE LET hours == seconds \div 3600
           minutes == (seconds % 3600) \div 60
           secs == seconds % 60
       IN IF hours > 0
          THEN ToString(hours) \o ":" \o PadStart2(ToString(minutes))
                 \o ":" \o PadStart2(ToString(secs))
          ELSE ToString(minutes) \o ":" \o PadStart2(ToString(secs))

CallFormatDuration(seconds) ==
  /\ call = NoCall
  /\ call' = [fn |-> "formatDuration", arg |-> seconds,
              out |-> formatDuration(seconds)]
  /\ UNCHANGED <<jobVars, handlerVars>>

\* --- formatViews (routes.ts:608-617)

MaxViews == 2100

\* The view counts considered: absent, every count up to MaxViews, and
\* counts about the thousands' and the millions' rounding points.
ViewCounts ==
  {Null} \cup 0..MaxViews
  \cup {k * 50 : k \in 0..400}
  \cup {999949, 999950, 999999, 1000000, 1049999, 1050000, 1050001,
        1150000, 2500000, 12345678, 123456789}

\* The number of binary digits of n >= 1.
RECURSIVE BitLength(_)
BitLength(n) == IF n <= 1 THEN 1 ELSE 1 + BitLength(n \div 2)

\* (r * 2^k) % m
RECURSIVE ShiftMod(_, _, _)
ShiftMod(r, k, m) == IF k = 0 THEN r ELSE ShiftMod((2 * r) % m, k - 1, m)

\* views / unit is the double nearest to the quotient, 53 binary digits of
\* it: that double is the quotient when nothing is cut off, and lies above
\* it when the part cut off is more than half a unit of the last digit.
DoubleNotBelow(views, unit) ==
  LET cut == ShiftMod(views % unit, 53 - BitLength(views \div unit), unit)
  IN cut = 0 \/ 2 * cut > unit

ToFixed1_Truncate(views, unit) ==
  LET tenths == (views * 10) \div unit
  IN ToString(tenths \div 10) \o "." \o ToString(tenths % 10)

\* (views / unit).toFixed(1): the tenth nearest to the double, the larger
\* of two that are equally near.
ToFixed1(views, unit) ==
  LET floor == (views * 10) \div unit
      rest == (views * 10) % unit
      up == IF 2 * rest = unit THEN DoubleNotBelow(views, unit)
            ELSE 2 * rest > unit
      tenths == floor + (IF up THEN 1 ELSE 0)
  IN ToString(tenths \div 10) \o "." \o ToString(tenths % 10)

formatViews(views) ==
  IF views = Null \/ views = 0 THEN "Unknown"
  ELSE IF views >= 1000000 THEN ToFixed1(views, 1000000) \o "M"
  ELSE IF views >= 1000 THEN ToFixed1(views, 1000) \o "K"
  ELSE ToString(views)

CallFormatViews(views) ==
  /\ call = NoCall
  /\ call' = [fn |-> "formatViews", arg |-> views,
              out |-> formatViews(views)]
  /\ UNCHANGED <<jobVars, handlerVars>>

\* --- getVideoInfo (routes.ts:70-155)

MaxErrorChunks == 2

\* s with the literal lit taken off its start, when it starts with it.
StripPrefix(s, lit) ==
  IF At(s, 1, lit) THEN SubSeq(s, Len(lit) + 1, Len(s)) ELSE s

\* /^(https?:\/\/)?(www\.)?(youtube\.com|youtu\.be)\/.+$/.test(url); the
\* empty string fails `!url` before it.
UrlOk(url) ==
  LET host == StripPrefix(StripPrefix(StripPrefix(url, "https://"),
                                      "http://"), "www.")
  IN \/ At(host, 1, "youtube.com/") /\ Len(host) > Len("youtube.com/")
     \/ At(host, 1, "youtu.be/") /\ Len(host) > Len("youtu.be/")

InfoUrls ==
  {"", "https://youtu.be/v", "www.youtube.com/watch?v=1", "youtu.be/",
   "https://vimeo.com/1"}

\* error.includes(lit)
Includes(s, lit) == \E i \in 1..Len(s) : At(s, i, lit)

Classify_PrivateFirst(error) ==
  IF Includes(error, "Private video") THEN "private_video"
  ELSE IF Includes(error, "HTTP Error 403") THEN "forbidden"
  ELSE IF Includes(error, "Video unavailable") THEN "video_unavailable"
  ELSE IF Includes(error, "This video is not available")
  THEN "region_restricted"
  ELSE "unknown"

\* let errorType = "unknown"; if (error.includes("HTTP Error 403")) ...
Classify(error) ==
  IF Includes(error, "HTTP Error 403") THEN "forbidden"
  ELSE IF Includes(error, "Video unavailable") THEN "video_unavailable"
  ELSE IF Includes(error, "Private video") THEN "private_video"
  ELSE IF Includes(error, "This video is not available")
  THEN "region_restricted"
  ELSE "unknown"

\* What yt-dlp writes to stderr, with the failure kinds each line marks.
ErrorLines ==
  { [text |-> "ERROR: HTTP Error 403: Forbidden; ", marks |-> {"forbidden"}],
    [text |-> "ERROR: Video unavailable; ", marks |-> {"video_unavailable"}],
    [text |-> "ERROR: Private video. Sign in; ", marks |-> {"private_video"}],
    [text |-> "ERROR: This video is not available; ",
     marks |-> {"region_restricted"}],
    [text |-> "ERROR: Video unavailable. This video is not available; ",
     marks |-> {"video_unavailable", "region_restricted"}],
    [text |-> "ERROR: Unable to download webpage; ", marks |-> {}] }

\* The metadata document on stdout: "" is an absent (or empty) text field,
\* Null an absent number.
Docs ==
  [title : {"", "T"}, thumbnail : {"", "t.jpg"}, duration : {Null, 75},
   uploader : {"", "Ch"}, view_count : {Null, 1500}]
NoDoc == [title |-> "", thumbnail |-> "", duration |-> Null,
          uploader |-> "", view_count |-> Null]

\* The captured stdout, by what JSON.parse makes of it: nothing was
\* printed, text that is no JSON, or a document.
NoOutput == [text |-> "", doc |-> NoDoc]
Outputs ==
  {NoOutput, [text |-> "not json", doc |-> NoDoc]}
  \cup {[text |-> "json", doc |-> d] : d \in Docs}

Or_First(a, b) == a

\* a || b on texts
Or(a, b) == IF a = "" THEN b ELSE a

NoData == [title |-> "", thumbnail |-> "", duration |-> "", channel |-> "",
           views |-> ""]
NoResult == [success |-> FALSE, errorType |-> "pending", data |-> NoData]
Failure(errorType) ==
  [success |-> FALSE, errorType |-> errorType, data |-> NoData]

\* resolve({ success: true, data: { title: videoInfo.title || ... } })
Success(videoInfo) ==
  [success |-> TRUE, errorType |-> "none",
   data |-> [title |-> Or(videoInfo.title, "Unknown Title"),
             thumbnail |-> Or(videoInfo.thumbnail, ""),
             duration |-> Or(formatDuration(videoInfo.duration), "Unknown"),
             channel |-> Or(videoInfo.uploader, "Unknown Channel"),
             views |-> Or(formatViews(videoInfo.view_count), "Unknown")]]

\* What the close handler resolves with.
CloseResult(code, output, error) ==
  IF code # 0 /\ output.text = "" THEN Failure(Classify(error))
  ELSE IF output.text # "json" THEN Failure("parse_error")
  ELSE Success(output.doc)

Resolve_Last(result, value) == value

\* resolve(value): a promise keeps the first value it was resolved with.
Resolve(result, value) == IF result = NoResult THEN value ELSE result

\* getVideoInfo(url): the checks before the spawn resolve at once; otherwise
\* yt-dlp is spawned and the handlers below resolve the promise.
\* errs keeps the stderr lines as they arrived, code the exit code.
GetVideoInfo(url, spawned) ==
  /\ call = NoCall
  /\ call' = [fn |-> "getVideoInfo",
              spawn |-> IF UrlOk(url) THEN spawned ELSE "none",
              child |-> IF UrlOk(url) THEN spawned ELSE "none",
              output |-> NoOutput, errs |-> <<>>, error |-> "",
              code |-> Null,
              result |-> IF UrlOk(url) THEN NoResult
                         ELSE Failure("invalid_url")]
  /\ UNCHANGED <<jobVars, handlerVars>>

\* ytDlp.stdout.on("data", ...): output += data
InfoStdout(o) ==
  /\ call.fn = "getVideoInfo"
  /\ call.child = "running"
  /\ call.output = NoOutput
  /\ o # NoOutput
  /\ call' = [call EXCEPT !.output = o]
  /\ UNCHANGED <<jobVars, handlerVars>>

\* ytDlp.stderr.on("data", ...): error += data
InfoStderr(line) ==
  /\ call.fn = "getVideoInfo"
  /\ call.child = "running"
  /\ Len(call.errs) < MaxErrorChunks
  /\ call' = [call EXCEPT !.errs = Append(@, line),
                          !.error = @ \o line.text]
  /\ UNCHANGED <<jobVars, handlerVars>>

\* ytDlp.on("error", ...)
InfoError ==
  /\ call.fn = "getVideoInfo"
  /\ call.child = "spawnFailed"
  /\ call' = [call EXCEPT !.child = "errored",
                          !.result = Resolve(@, Failure("missing_binary"))]
  /\ UNCHANGED <<jobVars, handlerVars>>

\* ytDlp.on("close", (code) => ...): after 'error' the code is -2.
InfoClose(code) ==
  /\ call.fn = "getVideoInfo"
  /\ \/ call.child = "running" /\ code \in {0, 1}
     \/ call.child = "errored" /\ code = -2
  /\ call' = [call EXCEPT !.child = "closed", !.code = code,
                !.result = Resolve(@, CloseResult(code, call.output,
                                                  call.error))]
  /\ UNCHANGED <<jobVars, handlerVars>>

\* --- estimateFileSize: the choice among the listed encodings
\* (routes.ts:559-585)

MaxFormats == 2

\* One entry of info.formats: height (Null when absent), the two codecs and
\* filesize (Null when absent).
Encodings ==
  [height : {Null, 360, 720}, acodec : {"none", "mp4a"},
   vcodec : {"none", "avc1"}, filesize : {Null, 11, 12}]

\* The parsed metadata: formats (empty also when the field is absent) whose
\* sizes, where present, differ, and filesize_approx (Null when absent).
Infos ==
  [formats : {fs \in UNION {[1..n -> Encodings] : n \in 0..MaxFormats} :
                \A i \in 1..Len(fs) : fs[i].filesize \in {Null, 10 + i}},
   filesize_approx : {Null, 3}]

\* videoQuality.replace("p", ""): the first "p" is taken out.
ReplaceP(s) ==
  LET at == {i \in 1..Len(s) : At(s, i, "p")}
  IN IF at = {} THEN s
     ELSE LET i == CHOOSE k \in at : \A m \in at : k <= m
          IN SubSeq(s, 1, i - 1) \o SubSeq(s, i + 1, Len(s))

Wanted_HeightOnly(f, videoQuality, videoFormat) ==
  IF videoFormat \in {"mp3", "wav"}
  THEN f.acodec # "none" /\ f.vcodec = "none"
  ELSE f.height # Null /\ ToString(f.height) = ReplaceP(videoQuality)

\* The predicate given to info.formats?.find.
Wanted(f, videoQuality, videoFormat) ==
  IF videoFormat \in {"mp3", "wav"}
  THEN f.acodec # "none" /\ f.vcodec = "none"
  ELSE /\ f.height # Null /\ ToString(f.height) = ReplaceP(videoQuality)
       /\ f.acodec # "none"

\* a || b on sizes: 0 and an absent value are falsy.
OrSize(a, b) == IF a = Null \/ a = 0 THEN b ELSE a

\* targetFormat = find(...), else the last of info.formats;
\* resolve(targetFormat?.filesize || info.filesize_approx || null)
SelectSize(info, videoQuality, videoFormat) ==
  LET fs == info.formats
      hits == {i \in 1..Len(fs) : Wanted(fs[i], videoQuality, videoFormat)}
      target == IF hits # {} THEN CHOOSE i \in hits : \A k \in hits : i <= k
                ELSE IF Len(fs) > 0 THEN Len(fs) ELSE 0
  IN OrSize(IF target = 0 THEN Null ELSE fs[target].filesize,
            info.filesize_approx)

\* One call of estimateFileSize whose process printed the document info.
CallSelectSize ==
  /\ call = NoCall
  /\ \E info \in Infos, q \in Qualities, f \in Formats :
       call' = [fn |-> "estimateFileSize", info |-> info, quality |-> q,
                format |-> f, out |-> SelectSize(info, q, f)]
  /\ UNCHANGED <<jobVars, handlerVars>>

\* --- the download invocation (routes.ts:447-463)

DownloadArgs_WavAsMp3(downloadUrl, outputPath, downloadQuality, downloadFormat) ==
  <<"--format", formatString(downloadQuality, downloadFormat),
    "--output", outputPath, downloadUrl>>
  \o (IF downloadFormat = "mp4" \/ downloadFormat = "webm"
      THEN <<"--merge-output-format", downloadFormat>> ELSE <<>>)
  \o (IF downloadFormat = "mp3" \/ downloadFormat = "wav"
      THEN <<"--extract-audio", "--audio-format", "mp3">>
      ELSE <<>>)

\* const args = [...]; args.push(...)
DownloadArgs(downloadUrl, outputPath, downloadQuality, downloadFormat) ==
  <<"--format", formatString(downloadQuality, downloadFormat),
    "--output", outputPath, downloadUrl>>
  \o (IF downloadFormat = "mp4" \/ downloadFormat = "webm"
      THEN <<"--merge-output-format", downloadFormat>> ELSE <<>>)
  \o (IF downloadFormat = "mp3"
      THEN <<"--extract-audio", "--audio-format", "mp3">>
      ELSE IF downloadFormat = "wav"
      THEN <<"--extract-audio", "--audio-format", "wav">>
      ELSE <<>>)

CallDownloadArgs(u, name, q, f) ==
  /\ call = NoCall
  /\ call' = [fn |-> "args", format |-> f,
              out |-> DownloadArgs(u, "downloads/" \o name, q, f)]
  /\ UNCHANGED <<jobVars, handlerVars>>

\* --- sanitizeFilename and the output path (routes.ts:270-271, 418-419,
\* 619-621)

NameLimit == 100

SafeChars_WithSlash ==
  "abcdefghijklmnopqrstuvwxyz" \o "ABCDEFGHIJKLMNOPQRSTUVWXYZ"
  \o "0123456789" \o " -_./"

\* The characters of the class [a-zA-Z0-9 \-_\.].
SafeChars ==
  "abcdefghijklmnopqrstuvwxyz" \o "ABCDEFGHIJKLMNOPQRSTUVWXYZ"
  \o "0123456789" \o " -_."

\* s.replace(/[^a-zA-Z0-9 \-_\.]/g, "") on the indices lo..hi of s.
RECURSIVE RemoveUnsafe(_, _, _)
RemoveUnsafe(s, lo, hi) ==
  IF lo > hi THEN ""
  ELSE IF lo = hi
  THEN IF \E k \in 1..Len(SafeChars) : Ch(SafeChars, k) = Ch(s, lo)
       THEN Ch(s, lo) ELSE ""
  ELSE LET mid == (lo + hi) \div 2
       IN RemoveUnsafe(s, lo, mid) \o RemoveUnsafe(s, mid + 1, hi)

\* substring(0, n)
Substring0(s, n) == IF Len(s) <= n THEN s ELSE SubSeq(s, 1, n)

sanitizeFilename(filename) ==
  Substring0(RemoveUnsafe(filename, 1, Len(filename)), NameLimit)

\* The segments of a path between its "/" separators.
Segments(s) ==
  LET seps == {0, Len(s) + 1} \cup {i \in 1..Len(s) : Ch(s, i) = "/"}
      nth(k) == CHOOSE x \in seps : Cardinality({y \in seps : y <= x}) = k
  IN [k \in 1..(Cardinality(seps) - 1) |->
        SubSeq(s, nth(k) + 1, nth(k + 1) - 1)]

\* path.join's normalisation of an absolute path: "" and "." are dropped and
\* ".." takes the segment before it away.
RECURSIVE Normalize(_, _)
Normalize(segs, done) ==
  IF segs = <<>> THEN done
  ELSE LET seg == Head(segs) IN
       IF seg = "" \/ seg = "." THEN Normalize(Tail(segs), done)
       ELSE IF seg = ".."
       THEN Normalize(Tail(segs),
                      IF done = <<>> THEN done
                      ELSE SubSeq(done, 1, Len(done) - 1))
       ELSE Normalize(Tail(segs), Append(done, seg))

\* path.join(downloadsDir, filename), as the list of its segments.
PathJoin(dir, name) == Normalize(Segments(dir \o "/" \o name), <<>>)

\* path.join(process.cwd(), "downloads")
DownloadsDir == "/app/downloads"

RECURSIVE Repeat(_, _)
Repeat(s, n) ==
  IF n = 0 THEN "" ELSE IF n = 1 THEN s
  ELSE Repeat(s, n \div 2) \o Repeat(s, n - n \div 2)

\* Titles yt-dlp may report: plain, with separators and dots, made of unsafe
\* characters only, and longer than the limit before and after the removal.
Titles ==
  {"My Video - part_1.final", "Unknown Title", "../../etc/passwd",
   "a/b\\c:d*e?f|g", "..", ".", "///", "50% off! (live) #1",
   Repeat("x", NameLimit), Repeat("x", NameLimit + 1),
   Repeat("ab/", 40), Repeat("0123456789/", 11),
   "/../x"}

\* POST /api/download derives the filename; processDownload joins it to the
\* downloads directory.
CallSanitizeFilename(title, f) ==
  /\ call = NoCall
  /\ LET filename == sanitizeFilename(title) \o "." \o f
     IN call' = [fn |-> "sanitizeFilename", title |-> title, format |-> f,
                 filename |-> filename,
                 outputPath |-> PathJoin(DownloadsDir, filename)]
  /\ UNCHANGED <<jobVars, handlerVars>>

\* ------------------------------------------------------------ the system

\* The server after registerRoutes' startup probes found both tools.
Init ==
  /\ InitJobs
  /\ HAS_YTDLP = TRUE
  /\ HAS_FFMPEG = TRUE
  /\ observedTrue = [t \in Tools |-> TRUE]
  /\ req = [r \in Reqs |-> NoReq]
  /\ call = NoCall

Next ==
  \/ \E u \in Urls, f \in Filenames : PostDownload(u, f)
  \/ \E d \in Ids : DrainDelay(d)
  \/ \E d \in Ids, ok \in BOOLEAN : DrainGetDownload(d, ok)
  \/ \E d \in Ids, ok \in BOOLEAN : DrainSetDownloading(d, ok)
  \/ \E d \in Ids, run \in EstimateRuns, o \in SpawnOutcomes :
       DrainEstimate(d, estimateFileSize(run), o)
  \/ \E d \in Ids, ok \in BOOLEAN, o \in SpawnOutcomes :
       DrainWriteEstimate(d, ok, o)
  \/ \E d \in Ids, ok \in BOOLEAN : DrainCatch(d, ok)
  \/ \E j \in Ids, c \in Chunks : StderrData(j, c)
  \/ \E w \in inflight, ok \in BOOLEAN : WriteSettles(w, ok)
  \/ \E j \in Ids, code \in {-2, 0, 1}, produced \in BOOLEAN, ok \in BOOLEAN :
       ProcClose(j, code, produced, ok)
  \/ \E j \in Ids, ok \in BOOLEAN : ProcError(j, ok)
  \/ \E j \in Ids : DeleteDownload(j)

Spec == Init /\ [][Next]_vars

\* The submission handler with the drain it starts; the startup probes
\* (routes.ts:172-174) found each tool or not.  The download processes run
\* on: their events are those of Spec.
SubmitInit ==
  /\ InitJobs
  /\ HAS_YTDLP \in BOOLEAN
  /\ HAS_FFMPEG \in BOOLEAN
  /\ observedTrue = [t \in Tools |-> IF t = "yt-dlp" THEN HAS_YTDLP
                                                    ELSE HAS_FFMPEG]
  /\ req = [r \in Reqs |-> NoReq]
  /\ call = NoCall

SubmitNext ==
  \/ \E r \in Reqs, f \in RequestFormats : PostRequest(r, f)
  \/ \E r \in Reqs, found \in BOOLEAN : YtdlpProbed(r, found)
  \/ \E r \in Reqs, found \in BOOLEAN : FfmpegProbed(r, found)
  \/ \E r \in Reqs, info \in InfoResults : VideoInfoDone(r, info)
  \/ \E r \in Reqs, ok \in BOOLEAN, u \in Urls, f \in Filenames :
       CreateSettled(r, ok, u, f)
  \/ \E d \in Ids : DrainDelay(d)
  \/ \E d \in Ids, ok \in BOOLEAN : DrainGetDownload(d, ok)
  \/ \E d \in Ids, ok \in BOOLEAN : DrainSetDownloading(d, ok)
  \/ \E d \in Ids, run \in EstimateRuns, o \in SpawnOutcomes :
       DrainEstimate(d, estimateFileSize(run), o)
  \/ \E d \in Ids, ok \in BOOLEAN, o \in SpawnOutcomes :
       DrainWriteEstimate(d, ok, o)
  \/ \E d \in Ids, ok \in BOOLEAN : DrainCatch(d, ok)

SubmitSpec == SubmitInit /\ [][SubmitNext]_vars


\* ------------------------------------------------------------ properties

Range(q) == {q[i] : i \in 1..Len(q)}
Jobs == DOMAIN downloads
Status(j) == downloads[j].status
Downloading == {j \in Jobs : Status(j) = "downloading"}

\* Ids are handed out in submission order and pushed in the same step, so
\* a < b says that a was pushed to downloadQueue before b.
PushedBefore(a, b) == a < b

\* C1. Single-flight: at most one job is 'downloading' at a time, and a job
\* submitted later has left 'pending' only when every job submitted before
\* it is 'completed' or 'failed'.
C1_SingleFlight ==
  /\ Cardinality(Downloading) <= 1
  /\ \A a, b \in Jobs :
       PushedBefore(a, b) /\ Status(b) # "pending" => Status(a) \in Terminal

C3_OneDrain ==
  [][ /\ Cardinality(ActiveDrains') <= 1
      /\ (ActiveDrains # {} /\ nextId' # nextId) =>
           /\ downloadQueue' = Append(downloadQueue, nextId)
           /\ drain' = drain ]_vars

C3_Witness ==
  /\ Cardinality(ActiveDrains) = 1
  /\ Len(downloadQueue) > 0

\* C4. Terminal states are absorbing: no step changes the status of a job
\* whose stored status is 'completed' or 'failed'.
C4_TerminalAbsorbing ==
  [][ \A j \in Jobs \cap Jobs' :
        Status(j) \in Terminal => downloads'[j].status = Status(j) ]_vars

\* A progress write issued before the exit was applied to the job after
\* it had been completed, and the job is still 'completed'.
C4_Witness ==
  \E j \in Jobs : Status(j) = "completed" /\ downloads[j].progress # 100

\* C5. Drain failure isolation: an error of processing one job never
\* escapes the drain loop, and isProcessing is true only while a drain is
\* running.
C5_DrainIsolation ==
  /\ \A d \in Ids : drain[d].pc # "rejected"
  /\ isProcessing => ActiveDrains # {}

\* C6. Liveness: a job that was dequeued and whose record exists eventually
\* is 'completed' or 'failed' (or its record is deleted).
Dequeued(j) == j < nextId /\ j \notin Range(downloadQueue)

C6_EventuallyTerminal ==
  \A j \in Ids :
    (j \in Jobs /\ Dequeued(j)) ~> (j \notin Jobs \/ Status(j) \in Terminal)

\* C7. While a job is 'downloading' its progress field never decreases.
C7_ProgressMonotone ==
  [][ \A j \in Jobs \cap Jobs' :
        Status(j) = "downloading" /\ downloads'[j].status = "downloading"
          => downloads'[j].progress >= downloads[j].progress ]_vars

\* C8. No percent value is written twice by the stderr handler of one
\* download.
C8_WrittenOnce ==
  \A j \in Ids : \A m, n \in 1..Len(progressWrites[j]) :
    m # n => progressWrites[j][m] # progressWrites[j][n]

\* C9. The progress field changes only in a step taken while the stored
\* status is 'downloading', or in the step that makes the status
\* 'downloading' or 'completed'.
C9_ProgressOnlyWhileDownloading ==
  [][ \A j \in Jobs \cap Jobs' :
        downloads'[j].progress # downloads[j].progress =>
          \/ Status(j) = "downloading"
          \/ /\ downloads'[j].status # Status(j)
             /\ downloads'[j].status \in {"downloading", "completed"} ]_vars

\* C10 (as claimed). fileSize and completedAt are each written exactly once,
\* by the write that completes the job: a job that is not completed has had
\* neither written, a completed job each once.
C10_WrittenOnceAtCompletion ==
  \A j \in Jobs :
    LET n == IF Status(j) = "completed" THEN 1 ELSE 0 IN
    /\ fieldWrites[j].completedAt = n
    /\ fieldWrites[j].fileSize = n

\* C10 (amended). completedAt is written exactly once for a job that
\* completes and never otherwise, by the write that moves the status from
\* 'downloading' to 'completed'; fileSize is written by that write and at
\* most once more, by the size-estimate write.
C10_Amended ==
  /\ [](\A j \in Jobs :
          LET n == IF Status(j) = "completed" THEN 1 ELSE 0 IN
          /\ fieldWrites[j].completedAt = n
          /\ fieldWrites[j].fileSize \in {n, n + 1})
  /\ [][ \A j \in Jobs \cap Jobs' :
           fieldWrites'[j].completedAt # fieldWrites[j].completedAt =>
             /\ Status(j) = "downloading"
             /\ downloads'[j].status = "completed"
             /\ fieldWrites'[j].fileSize = fieldWrites[j].fileSize + 1 ]_vars

C10_Witness ==
  \E j \in Jobs :
    /\ Status(j) = "completed"
    /\ fieldWrites[j].completedAt = 1
    /\ fieldWrites[j].fileSize = 2

\* The event loop runs every continuation that is ready, and every spawned
\* process eventually emits 'close' or 'error'.
Fairness ==
  /\ \A d \in Ids :
       /\ WF_vars(DrainDelay(d))
       /\ WF_vars(\E ok \in BOOLEAN : DrainGetDownload(d, ok))
       /\ WF_vars(\E ok \in BOOLEAN : DrainSetDownloading(d, ok))
       /\ WF_vars(\E run \in EstimateRuns, o \in SpawnOutcomes :
                    DrainEstimate(d, estimateFileSize(run), o))
       /\ WF_vars(\E ok \in BOOLEAN, o \in SpawnOutcomes :
                    DrainWriteEstimate(d, ok, o))
       /\ WF_vars(\E ok \in BOOLEAN : DrainCatch(d, ok))
  /\ \A j \in Ids :
       /\ WF_vars(\E code \in {-2, 0, 1}, produced \in BOOLEAN, ok \in BOOLEAN :
                    ProcClose(j, code, produced, ok))
       /\ WF_vars(\E ok \in BOOLEAN : ProcError(j, ok))
  /\ WF_vars(\E w \in inflight, ok \in BOOLEAN : WriteSettles(w, ok))

FairSpec == Spec /\ Fairness

\* One call of a helper, on any input of its bounded domain; nothing else
\* runs.
FnInit ==
  /\ InitJobs
  /\ storageInstance = "MemStorage"
  /\ HAS_YTDLP = TRUE
  /\ HAS_FFMPEG = TRUE
  /\ observedTrue = [t \in Tools |-> TRUE]
  /\ req = [r \in Reqs |-> NoReq]
  /\ call = NoCall

FnNext ==
  \/ \E q \in Qualities, f \in Formats : CallFormatString(q, f)
  \/ \E toks \in TokenSeqs : CallParseChunk(toks)
  \/ \E seconds \in Durations : CallFormatDuration(seconds)
  \/ \E views \in ViewCounts : CallFormatViews(views)
  \/ \E url \in InfoUrls, spawned \in {"running", "spawnFailed"} :
       GetVideoInfo(url, spawned)
  \/ \E o \in Outputs : InfoStdout(o)
  \/ \E line \in ErrorLines : InfoStderr(line)
  \/ InfoError
  \/ \E code \in {-2, 0, 1} : InfoClose(code)
  \/ CallSelectSize
  \/ \E title \in Titles, f \in Formats : CallSanitizeFilename(title, f)
  \/ \E u \in Urls, name \in Filenames, q \in Qualities, f \in Formats :
       CallDownloadArgs(u, name, q, f)

FnSpec == FnInit /\ [][FnNext]_vars

\* ------------------------------------------- properties of the submission

\* What the request asked for and what ensureTools returned to it.
AudioOnly(r) == req[r].format \in {"mp3", "wav"}
FailsPrecondition(r) ==
  req[r].preflight /\ (~req[r].ytdlp \/ (AudioOnly(r) /\ ~req[r].ffmpeg))
MetadataFailed(r) == req[r].info \notin {"none", "success"}
FailureResponses == {"503 yt-dlp missing", "503 FFmpeg is required", "400"}

\* C11. A submission that fails a precondition (yt-dlp unavailable, or an
\* audio format with ffmpeg unavailable) or whose metadata retrieval fails
\* is answered with a failure, has called storage.createDownload zero
\* times and has pushed nothing; the job table holds exactly one record per
\* submission answered with the created job.
C11_FailureCreatesNothing ==
  /\ \A r \in Reqs :
       FailsPrecondition(r) \/ MetadataFailed(r) =>
         /\ req[r].res \in FailureResponses
         /\ req[r].creates = 0
         /\ req[r].pushes = 0
         /\ req[r].job = NoJob
  /\ Jobs = {req[r].job.id : r \in {q \in Reqs : req[q].res = "200"}}

C11_Witness ==
  \E r, q \in Reqs :
    /\ AudioOnly(r) /\ req[r].ytdlp /\ ~req[r].ffmpeg
    /\ req[r].res = "503 FFmpeg is required"
    /\ req[q].info = "video_unavailable" /\ req[q].res = "400"
    /\ Jobs # {}

\* C12. A submission answered with the created job has, in this order,
\* retrieved the metadata, called storage.createDownload exactly once and
\* pushed the new id exactly once; the step that answers it adds exactly
\* the answered id to the job table, and the job in the answer has status
\* 'pending', progress 0 and completedAt null.
C12_SubmissionOrder ==
  [][ \A r \in Reqs :
        /\ req'[r].creates > 0 => req'[r].info = "success"
        /\ req'[r].pushes > 0 => req'[r].creates = 1
        /\ req'[r].res = "200" => req'[r].creates = 1 /\ req'[r].pushes = 1
        /\ req[r].res # "200" /\ req'[r].res = "200" =>
             /\ req[r].creates = 1 /\ req[r].pushes = 0
             /\ req'[r].job.id \notin DOMAIN downloads
             /\ DOMAIN downloads' = DOMAIN downloads \cup {req'[r].job.id}
             /\ req'[r].job.status = "pending"
             /\ req'[r].job.progress = 0
             /\ req'[r].job.completedAt = "null" ]_vars

\* The answer has been sent and the drain has since moved the stored job on.
C12_Witness ==
  \E r \in Reqs :
    /\ req[r].res = "200"
    /\ req[r].job.status = "pending"
    /\ req[r].job.id \in Jobs
    /\ Status(req[r].job.id) = "downloading"

\* C13 as stated. An mp3 submission made when the probe of yt-dlp fails and
\* ffmpeg is unavailable is answered with the ffmpeg-required failure, and
\* no job is persisted.
C13_AudioFailureFirst ==
  \A r \in Reqs :
    req[r].format = "mp3" /\ req[r].preflight
      /\ ~req[r].ytdlp /\ ~req[r].ffmpeg =>
        /\ req[r].res = "503 FFmpeg is required"
        /\ req[r].job = NoJob

\* C13, amended. An mp3 submission made when ffmpeg is unavailable is
\* answered with the yt-dlp-missing failure when yt-dlp is unavailable too,
\* and with the ffmpeg-required failure when yt-dlp is available; in both
\* cases createDownload is not called and no job is persisted.
C13_Amended ==
  \A r \in Reqs :
    req[r].format = "mp3" /\ req[r].preflight /\ ~req[r].ffmpeg =>
      /\ req[r].res = IF req[r].ytdlp THEN "503 FFmpeg is required"
                                      ELSE "503 yt-dlp missing"
      /\ req[r].creates = 0
      /\ req[r].job = NoJob

C13_Witness ==
  \E r \in Reqs :
    /\ req[r].format = "mp3" /\ req[r].preflight
    /\ ~req[r].ytdlp /\ ~req[r].ffmpeg
    /\ req[r].res = "503 yt-dlp missing"
    /\ ~HAS_YTDLP /\ ~HAS_FFMPEG

\* A request starts a probe of tool t in this step.
StartsProbe(r, t) ==
  LET at == IF t = "yt-dlp" THEN "probeYtdlp" ELSE "probeFfmpeg"
  IN req[r].pc # at /\ req'[r].pc = at

\* C16. Once a request has read a tool's flag as true, no request starts a
\* probe of that tool.
C16_NoReprobe ==
  [][ \A t \in Tools, r \in Reqs :
        observedTrue[t] => ~StartsProbe(r, t) ]_vars

\* ---------------------------------------------- properties of the records

\* A step of the processing of job b: a step of the drain on b, an event of
\* b's download process, or the settling of a write to b.
Processing(b) ==
  \/ \E d \in Ids :
       /\ drain[d].id = b
       /\ \/ \E ok \in BOOLEAN :
               \/ DrainGetDownload(d, ok)
               \/ DrainSetDownloading(d, ok)
               \/ DrainCatch(d, ok)
          \/ \E run \in EstimateRuns, o \in SpawnOutcomes :
               DrainEstimate(d, estimateFileSize(run), o)
          \/ \E ok \in BOOLEAN, o \in SpawnOutcomes :
               DrainWriteEstimate(d, ok, o)
  \/ \E c \in Chunks : StderrData(b, c)
  \/ \E w \in inflight, ok \in BOOLEAN : w.id = b /\ WriteSettles(w, ok)
  \/ \E code \in {-2, 0, 1}, produced \in BOOLEAN, ok \in BOOLEAN :
       ProcClose(b, code, produced, ok)
  \/ \E ok \in BOOLEAN : ProcError(b, ok)

\* C14. No deduplication: a submission of the URL of a completed job a adds
\* one record under an id that is neither a's nor any existing one, and
\* neither that submission nor a step of the processing of another job of
\* the same URL changes a field of a's record.
C14_NoDeduplication ==
  [][ \A a \in Jobs :
        Status(a) = "completed" =>
          /\ \A f \in Filenames :
               PostDownload(downloads[a].url, f) =>
                 /\ nextId \notin Jobs
                 /\ DOMAIN downloads' = Jobs \cup {nextId}
                 /\ downloads'[nextId].url = downloads[a].url
                 /\ downloads'[a] = downloads[a]
          /\ \A b \in Jobs \ {a} :
               downloads[b].url = downloads[a].url /\ Processing(b) =>
                 /\ a \in DOMAIN downloads'
                 /\ downloads'[a] = downloads[a] ]_vars

C14_Witness ==
  \E a, b \in Jobs :
    /\ a # b
    /\ downloads[a].url = downloads[b].url
    /\ Status(a) = "completed" /\ downloads[a].fileSize = ActualSize
    /\ Status(b) = "completed"

\* C17. No step removes the file at the output path of a job whose status
\* is 'downloading' and whose download process is running.
C17_NoDeleteWhileDownloading ==
  [][ \A j \in Jobs :
        Status(j) = "downloading" /\ proc[j].st = "running"
          /\ proc[j].outputPath \in files =>
            proc[j].outputPath \in files' ]_vars

\* ----------------------------------------------- properties of the helpers

\* The height bound a quality stands for: "720p" is 720.
Height(quality) ==
  CHOOSE h \in {"1080", "720", "480", "360"} : h \o "p" = quality

\* C15. On {1080p,720p,480p,360p} x {mp4,webm,mp3,wav} the format string
\* is the best-audio selector for mp3 and wav, and for mp4 and webm at
\* quality Hp it is 'bestvideo[height<=H]+bestaudio/best[height<=H]';
\* no input yields the default 'best'.
C15_FormatStringTotal ==
  call.fn = "formatString" =>
    /\ call.quality \in Qualities /\ call.format \in Formats
    /\ call.out # "best"
    /\ call.format \in {"mp3", "wav"} => call.out = "bestaudio/best"
    /\ call.format \in {"mp4", "webm"} =>
         call.out = "bestvideo[height<=" \o Height(call.quality)
                      \o "]+bestaudio/best[height<="
                      \o Height(call.quality) \o "]"

C15_Witness ==
  /\ call.fn = "formatString"
  /\ call.quality = "480p" /\ call.format = "webm"
  /\ call.out = "bestvideo[height<=480]+bestaudio/best[height<=480]"

\* What the first token of the chunk that carries the signal carries.
RECURSIVE FirstCarried(_, _, _)
FirstCarried(toks, kind, none) ==
  IF toks = <<>> THEN none
  ELSE IF Head(toks)[kind] # none THEN Head(toks)[kind]
  ELSE FirstCarried(Tail(toks), kind, none)

ExampleChunk == "  45.2% of 10MiB at 1.2MiB/s ETA 00:30"

\* C18. Parsing one chunk yields, for each kind, no value or the one value
\* of the first place in the chunk that carries that kind, whatever the
\* other kinds' places are; the chunk
\* '  45.2% of 10MiB at 1.2MiB/s ETA 00:30' yields percent 45, rate
\* '1.2MiB/s' and ETA '00:30'.
C18_FirstMatchPerKind ==
  call.fn = "parseChunk" =>
    /\ (IF call.out.pct = NoMatch THEN NoMatch ELSE Round(call.out.pct))
         = FirstCarried(call.tokens, "pct", NoMatch)
    /\ call.out.speed = FirstCarried(call.tokens, "speed", "none")
    /\ call.out.eta = FirstCarried(call.tokens, "eta", "none")
    /\ Concat(call.tokens) = ExampleChunk =>
         /\ Round(call.out.pct) = 45
         /\ call.out.speed = "1.2MiB/s"
         /\ call.out.eta = "00:30"

C18_Witness ==
  /\ call.fn = "parseChunk"
  /\ Concat(call.tokens) = ExampleChunk
  /\ call.out = [pct |-> 452, speed |-> "1.2MiB/s", eta |-> "00:30"]

\* The text is digits, ":", two digits, and nothing more.
IsMSS(text) ==
  LET e == DigitsEnd(text, 1) IN
  /\ e > 1 /\ Ch(text, e) = ":"
  /\ DigitsEnd(text, e + 1) = e + 3
  /\ Len(text) = e + 2

\* The text is digits, ":", two digits, ":", two digits, and nothing more.
IsHMMSS(text) ==
  LET e == DigitsEnd(text, 1) IN
  /\ e > 1 /\ Ch(text, e) = ":"
  /\ DigitsEnd(text, e + 1) = e + 3 /\ Ch(text, e + 3) = ":"
  /\ DigitsEnd(text, e + 4) = e + 6
  /\ Len(text) = e + 5

\* The number written from index i up to the next character that is no
\* digit.
NumberFrom(text, i) == ToInt(SubSeq(text, i, DigitsEnd(text, i) - 1))

\* C19. formatDuration renders 0 and an absent value as 'Unknown', a count
\* of 3600 and more as H:MM:SS and a smaller count as M:SS, with two-digit
\* minutes (hour form) and seconds that are below 60, so that the text
\* reads back as the count; 3661 gives '1:01:01' and 75 gives '1:15'.
C19_FormatDuration ==
  call.fn = "formatDuration" =>
    LET n == call.arg
        text == call.out
        e == DigitsEnd(text, 1)
    IN /\ n \in {Null, 0} => text = "Unknown"
       /\ n >= 3600 =>
            /\ IsHMMSS(text)
            /\ NumberFrom(text, e + 1) < 60 /\ NumberFrom(text, e + 4) < 60
            /\ 3600 * NumberFrom(text, 1) + 60 * NumberFrom(text, e + 1)
                 + NumberFrom(text, e + 4) = n
       /\ 0 < n /\ n < 3600 =>
            /\ IsMSS(text)
            /\ NumberFrom(text, e + 1) < 60
            /\ 60 * NumberFrom(text, 1) + NumberFrom(text, e + 1) = n
       /\ n = 3661 => text = "1:01:01"
       /\ n = 75 => text = "1:15"

C19_Witness ==
  /\ call.fn = "formatDuration"
  /\ call.arg = 3661
  /\ call.out = "1:01:01"

\* The text is digits, ".", one digit and the suffix, and nothing more.
IsOneDecimal(text, suffix) ==
  LET e == DigitsEnd(text, 1) IN
  /\ e > 1 /\ Ch(text, e) = "."
  /\ DigitsEnd(text, e + 1) = e + 2
  /\ Ch(text, e + 2) = suffix
  /\ Len(text) = e + 2

\* The number of tenths a one-decimal text stands for.
TenthsOf(text) ==
  10 * NumberFrom(text, 1) + NumberFrom(text, DigitsEnd(text, 1) + 1)

\* C20. formatViews renders 0 and an absent value as 'Unknown', a count
\* below 1000 as the plain integer, a count from 1000 to below 1,000,000
\* as thousands with one decimal and the suffix K, and a count from
\* 1,000,000 as millions with one decimal and the suffix M, the decimal
\* within half a tenth of the count; 500 gives '500', 1500 gives '1.5K'
\* and 2500000 gives '2.5M'.
C20_FormatViews ==
  call.fn = "formatViews" =>
    LET n == call.arg
        text == call.out
    IN /\ n \in {Null, 0} => text = "Unknown"
       /\ 0 < n /\ n < 1000 =>
            /\ DigitsEnd(text, 1) = Len(text) + 1
            /\ NumberFrom(text, 1) = n
       /\ 1000 <= n /\ n < 1000000 =>
            /\ IsOneDecimal(text, "K")
            /\ TenthsOf(text) * 100 - n <= 50
            /\ n - TenthsOf(text) * 100 <= 50
       /\ n >= 1000000 =>
            /\ IsOneDecimal(text, "M")
            /\ TenthsOf(text) * 100000 - n <= 50000
            /\ n - TenthsOf(text) * 100000 <= 50000
       /\ n = 500 => text = "500"
       /\ n = 1500 => text = "1.5K"
       /\ n = 2500000 => text = "2.5M"

C20_Witness ==
  /\ call.fn = "formatViews"
  /\ call.arg = 2500000
  /\ call.out = "2.5M"

\* -------------------------------------------- properties of the job states

StatusSteps ==
  { <<"pending", "downloading">>, <<"downloading", "completed">>,
    <<"downloading", "failed">> }

\* C21. Every change of a job's stored status is pending -> downloading,
\* downloading -> completed or downloading -> failed.
C21_StatusTransitions ==
  [][ \A j \in Jobs :
        j \in DOMAIN downloads' /\ downloads'[j].status # Status(j) =>
          <<Status(j), downloads'[j].status>> \in StatusSteps ]_vars

\* C22. A job whose stored status is 'completed' has progress 100 and a
\* completedAt that is not null.
C22_CompletedIsWhole ==
  \A j \in Jobs :
    Status(j) = "completed" =>
      downloads[j].progress = 100 /\ downloads[j].completedAt # "null"

\* C23. On the step from 'downloading' to 'completed', fileSize becomes
\* the actual size when the output file exists, and keeps its value when
\* the file is absent.
C23_FileSizeAtCompletion ==
  [][ \A j \in Jobs :
        /\ j \in DOMAIN downloads'
        /\ Status(j) = "downloading"
        /\ downloads'[j].status = "completed"
        => downloads'[j].fileSize =
             IF proc[j].outputPath \in files' THEN ActualSize
             ELSE downloads[j].fileSize ]_vars

\* C24. A job becomes 'failed' only by its download process closing with
\* a non-zero code, by that process's 'error' event, or by processDownload's
\* catch block; and a job whose stored status is 'failed' has completedAt
\* null.
C24_FailedHasNoTimestamp ==
  /\ [](\A j \in Jobs :
          Status(j) = "failed" => downloads[j].completedAt = "null")
  /\ [][ \A j \in Jobs \cap Jobs' :
           Status(j) # "failed" /\ downloads'[j].status = "failed" =>
             \/ \E code \in {-2, 1}, produced \in BOOLEAN :
                  ProcClose(j, code, produced, TRUE)
             \/ ProcError(j, TRUE)
             \/ \E d \in Ids : drain[d].id = j /\ DrainCatch(d, TRUE) ]_vars

\* One job failed in the catch block, before any process was spawned, and
\* another by the exit code of its process.
C24_Witness ==
  \E a, b \in Jobs :
    /\ Status(a) = "failed" /\ proc[a].st = "none"
    /\ Status(b) = "failed" /\ proc[b].st = "closed"
    /\ downloads[b].fileSize = EstimatedSize

\* C25. A rejected storage write does not abort the job: processDownload
\* does not enter its failure path because of it, and a job is 'failed'
\* only after its download process was spawned and has reported.
C25_WriteFailureDoesNotAbort ==
  /\ \A d \in Ids : drain[d].pc # "catch"
  /\ \A j \in Jobs :
       Status(j) = "failed" => proc[j].st \in {"errored", "closed"}

\* The place of the last write of progress n among the job's progress
\* writes, 0 when there is none.
LastIssue(j, n) ==
  LET at == {i \in 1..Len(progressWrites[j]) : progressWrites[j][i] = n}
  IN IF at = {} THEN 0 ELSE CHOOSE i \in at : \A k \in at : k <= i

\* Write v was issued before write w of the same job and field.
IssuedBefore(v, w) ==
  /\ v.id = w.id /\ v.field = "progress" /\ w.field = "progress"
  /\ LastIssue(v.id, v.num) # 0
  /\ LastIssue(v.id, v.num) < LastIssue(w.id, w.num)

\* C26. A write made from a diagnostic chunk is applied before the job's
\* terminal update and not before a write of the same job that an earlier
\* chunk made to the same field.
C26_ChunkWritesInOrder ==
  [][ \A w \in inflight \ inflight' :
        /\ w.id \in Jobs => Status(w.id) \notin Terminal
        /\ \A v \in inflight' : ~IssuedBefore(v, w) ]_vars

\* The failure kinds in the order the close handler tries them.
KindOrder ==
  <<"forbidden", "video_unavailable", "private_video", "region_restricted">>

\* The kinds marked by the stderr lines that arrived.
Marked(errs) == UNION {errs[i].marks : i \in 1..Len(errs)}

\* The first kind of KindOrder that is marked, "unknown" when none is.
FirstKind(marked) ==
  LET at == {i \in 1..Len(KindOrder) : KindOrder[i] \in marked}
  IN IF at = {} THEN "unknown"
     ELSE KindOrder[CHOOSE i \in at : \A k \in at : i <= k]

\* C27: when the metadata process closes with a non-zero code and nothing on
\* stdout, getVideoInfo resolves to a failure whose kind is the first, in the
\* order forbidden, video_unavailable, private_video, region_restricted, whose
\* marker is in the captured stderr text, and unknown when none is.
C27_FirstMatchingKind ==
  (/\ call.fn = "getVideoInfo" /\ call.child = "closed"
   /\ call.spawn = "running" /\ call.code # 0 /\ call.output = NoOutput)
  => /\ ~call.result.success
     /\ call.result.errorType = FirstKind(Marked(call.errs))

C27_Witness ==
  /\ call.fn = "getVideoInfo" /\ call.child = "closed" /\ call.code = 1
  /\ call.output = NoOutput
  /\ Marked(call.errs) = {"private_video", "video_unavailable",
                          "region_restricted"}
  /\ call.result.errorType = "video_unavailable"

\* C28: when the metadata process cannot be spawned the promise resolves
\* with missing_binary, and the 'close' event that follows does not replace
\* that result.
C28_MissingBinaryKept ==
  (/\ call.fn = "getVideoInfo" /\ call.spawn = "spawnFailed"
   /\ call.child \in {"errored", "closed"})
  => call.result = Failure("missing_binary")

C28_Witness ==
  /\ call.fn = "getVideoInfo" /\ call.spawn = "spawnFailed"
  /\ call.child = "closed" /\ call.code = -2
  /\ call.result = Failure("missing_binary")

\* The result data of a parsed document agrees with the defaults given, for
\* every field the document lacks.
DefaultsAre(title, thumbnail, duration, channel, views) ==
  (/\ call.fn = "getVideoInfo" /\ call.child = "closed"
   /\ call.result.success)
  => LET doc == call.output.doc
         data == call.result.data
     IN /\ doc.title = "" => data.title = title
        /\ doc.thumbnail = "" => data.thumbnail = thumbnail
        /\ doc.duration = Null => data.duration = duration
        /\ doc.uploader = "" => data.channel = channel
        /\ doc.view_count = Null => data.views = views

\* C29: a field missing from the parsed metadata gets its default: title
\* 'Unknown Title', thumbnail '', duration 'Unknown', channel 'Unknown',
\* views 'Unknown'.
C29_Defaults ==
  DefaultsAre("Unknown Title", "", "Unknown", "Unknown", "Unknown")

\* C29 as the code has it: the default channel is 'Unknown Channel'.
C29_Amended ==
  DefaultsAre("Unknown Title", "", "Unknown", "Unknown Channel", "Unknown")

C29_Witness ==
  /\ call.fn = "getVideoInfo" /\ call.child = "closed"
  /\ call.result.success
  /\ call.output.doc = NoDoc
  /\ call.result.data = [title |-> "Unknown Title", thumbnail |-> "",
                         duration |-> "Unknown",
                         channel |-> "Unknown Channel", views |-> "Unknown"]

\* The runs of the metadata process in which the estimate fails: it cannot
\* be spawned, exits non-zero without output, or prints what cannot be parsed.
EstimateFails(run) ==
  \/ run.child = "spawnFailed"
  \/ run.code # 0 /\ run.text = ""
  \/ run.text = "not json"

\* C30: a failed estimate never fails the job: when the metadata process
\* cannot be spawned, exits non-zero without output, or prints what cannot be
\* parsed, processDownload writes no fileSize, fails nothing, and goes on to
\* spawn the download process with the job in status 'downloading'.
C30_EstimateNeverFailsJob ==
  [][ \A d \in Ids, o \in SpawnOutcomes :
        \A run \in {r \in EstimateRuns : EstimateFails(r)} :
          DrainEstimate(d, estimateFileSize(run), o) =>
            LET j == drain[d].id IN
            /\ drain'[d].pc \notin {"writeEstimate", "catch"}
            /\ downloads' = downloads
            /\ fieldWrites' = fieldWrites
            /\ proc[j].st = "none" /\ proc'[j].st = o
            /\ j \in DOMAIN downloads => Status(j) = "downloading" ]_vars

C30_Witness ==
  \E j \in Jobs : /\ Status(j) = "downloading"
                  /\ proc[j].st = "running"
                  /\ downloads[j].fileSize = Null
                  /\ downloads[j].progress > 0

\* Fairness of every step but the exit of the size-estimation process:
\* estimateFileSize sets no timeout and nothing else ends its process.
EstimateMayHang ==
  /\ \A d \in Ids :
       /\ WF_vars(DrainDelay(d))
       /\ WF_vars(\E ok \in BOOLEAN : DrainGetDownload(d, ok))
       /\ WF_vars(\E ok \in BOOLEAN : DrainSetDownloading(d, ok))
       /\ WF_vars(\E ok \in BOOLEAN, o \in SpawnOutcomes :
                    DrainWriteEstimate(d, ok, o))
       /\ WF_vars(\E ok \in BOOLEAN : DrainCatch(d, ok))
  /\ \A j \in Ids :
       /\ WF_vars(\E code \in {-2, 0, 1}, produced \in BOOLEAN, ok \in BOOLEAN :
                    ProcClose(j, code, produced, ok))
       /\ WF_vars(\E ok \in BOOLEAN : ProcError(j, ok))
  /\ WF_vars(\E w \in inflight, ok \in BOOLEAN : WriteSettles(w, ok))

HangSpec == Spec /\ EstimateMayHang

\* C31: size estimation never blocks the job: a drain that has started the
\* estimate goes on (to the spawn of the download process) whether or not the
\* size-estimation process ever exits.
C31_EstimateNeverBlocks ==
  \A d \in Ids : (drain[d].pc = "estimate") ~> (drain[d].pc # "estimate")

\* The first listed encoding that has the requested height (video formats)
\* or is audio-only (mp3, wav), else the last listed; 0 when nothing is
\* listed.  With audible set, a video format's encoding must carry audio too.
ChosenEncoding(fs, quality, format, audible) ==
  LET hits == {i \in 1..Len(fs) :
                 IF format \in {"mp3", "wav"}
                 THEN fs[i].vcodec = "none" /\ fs[i].acodec # "none"
                 ELSE /\ fs[i].height # Null
                      /\ ToString(fs[i].height) \o "p" = quality
                      /\ audible => fs[i].acodec # "none"}
  IN IF hits # {} THEN CHOOSE i \in hits : \A k \in hits : i <= k
     ELSE Len(fs)

\* The result is the chosen encoding's size, else the approximate size, else
\* null.
ResultIsSizeOf(audible) ==
  call.fn = "estimateFileSize" =>
    LET fs == call.info.formats
        i == ChosenEncoding(fs, call.quality, call.format, audible)
    IN call.out = IF i # 0 /\ fs[i].filesize # Null THEN fs[i].filesize
                  ELSE call.info.filesize_approx

\* C32: estimateFileSize picks the first encoding with height equal to the
\* requested quality (video formats) or the first audio-only encoding (mp3,
\* wav), else the last listed one; the result is that encoding's size, else
\* the approximate size, else null.
C32_EncodingChoice == ResultIsSizeOf(FALSE)

\* C32 as the code has it: for a video format the encoding must have the
\* requested height and an audio track.
C32_Amended == ResultIsSizeOf(TRUE)

C32_Witness ==
  /\ call.fn = "estimateFileSize" /\ call.format = "mp4"
  /\ call.quality = "720p"
  /\ Len(call.info.formats) = 2
  /\ call.info.formats[1] = [height |-> 720, acodec |-> "none",
                             vcodec |-> "avc1", filesize |-> 11]
  /\ call.info.formats[2].height = 720
  /\ call.info.formats[2].acodec = "mp4a"
  /\ call.out = 12

\* args carries the option flag / carries it followed by value.
Has(args, flag) == \E i \in 1..Len(args) : args[i] = flag
HasValue(args, flag, value) ==
  \E i \in 1..(Len(args) - 1) : args[i] = flag /\ args[i + 1] = value

\* C33: for every format of the fixed set the download invocation carries
\* --merge-output-format exactly when the format is mp4 or webm, with the
\* format as its value, and --extract-audio with --audio-format equal to the
\* format exactly when the format is mp3 or wav; no invocation carries both.
C33_MergeOrExtract ==
  call.fn = "args" =>
    LET args == call.out
        f == call.format
    IN /\ Has(args, "--merge-output-format") <=> f \in {"mp4", "webm"}
       /\ Has(args, "--merge-output-format") =>
            HasValue(args, "--merge-output-format", f)
       /\ Has(args, "--extract-audio") <=> f \in {"mp3", "wav"}
       /\ Has(args, "--audio-format") <=> f \in {"mp3", "wav"}
       /\ Has(args, "--extract-audio") =>
            HasValue(args, "--audio-format", f)
       /\ ~(Has(args, "--merge-output-format") /\ Has(args, "--extract-audio"))

C33_Witness ==
  /\ call.fn = "args" /\ call.format = "wav"
  /\ HasValue(call.out, "--audio-format", "wav")
  /\ Has(call.out, "--extract-audio")

\* The indices of title that hold a character of [a-zA-Z0-9 \-_\.], and the
\* number of them up to index i.
Kept(title) ==
  {i \in 1..Len(title) :
     \/ Ch(title, i) \in Digit \cup {" ", "-", "_", "."}
     \/ \E k \in 1..26 : Ch(title, i) \in
          {Ch("abcdefghijklmnopqrstuvwxyz", k),
           Ch("ABCDEFGHIJKLMNOPQRSTUVWXYZ", k)}}
KeptUpTo(title, i) == Cardinality({k \in Kept(title) : k <= i})

\* C34: the derived filename is the title without the characters outside
\* [a-zA-Z0-9 space - _ .], cut to at most 100 characters, then '.' and the
\* format; it holds no path separator, so the output path lies directly in the
\* downloads directory.
C34_SafeFilename ==
  call.fn = "sanitizeFilename" =>
    LET title == call.title
        suffix == "." \o call.format
        n == Len(call.filename) - Len(suffix)
        stem == SubSeq(call.filename, 1, n)
    IN /\ n >= 0 /\ At(call.filename, n + 1, suffix)
       /\ n <= 100
       /\ n = IF Cardinality(Kept(title)) < 100
              THEN Cardinality(Kept(title)) ELSE 100
       /\ \A i \in Kept(title) :
            KeptUpTo(title, i) <= n => Ch(stem, KeptUpTo(title, i)) = Ch(title, i)
       /\ \A i \in 1..Len(call.filename) :
            Ch(call.filename, i) \notin {"/", "\\"}
       /\ call.outputPath = <<"app", "downloads", call.filename>>

C34_Witness ==
  /\ call.fn = "sanitizeFilename"
  /\ Len(call.title) = 121 /\ At(call.title, 1, "0123456789/")
  /\ call.filename = Repeat("0123456789", 10) \o ".mp4"
  /\ call.outputPath = <<"app", "downloads", call.filename>>

\* Job j waits in downloadQueue.
Queued(j) == \E i \in 1..Len(downloadQueue) : downloadQueue[i] = j

C36_FlagsNeverRegress ==
  [][ /\ HAS_YTDLP => HAS_YTDLP'
      /\ HAS_FFMPEG => HAS_FFMPEG' ]_vars

\* C37: each job id is pushed to downloadQueue exactly once (when its record
\* is created) and dequeued at most once, so at most one download process is
\* spawned for a job and pending -> downloading happens at most once.
C37_OncePerJob ==
  /\ [](\A i, k \in 1..Len(downloadQueue) :
          i # k => downloadQueue[i] # downloadQueue[k])
  /\ [](\A j \in Ids : Queued(j) =>
          /\ j < nextId /\ proc[j].st = "none"
          /\ \A d \in ActiveDrains : drain[d].id # j
          /\ j \in Jobs => Status(j) = "pending")
  /\ [][ \A j \in Ids :
           /\ j = nextId /\ nextId' # nextId =>
                \/ Queued(j)'
                \/ \E d \in Ids : drain'[d] = [pc |-> "getDownload", id |-> j,
                                               est |-> Null]
           /\ j < nextId /\ ~Queued(j) => ~Queued(j)'
           /\ proc[j].st # "none" =>
                /\ proc'[j].st # "none"
                /\ proc'[j].st \in SpawnOutcomes => proc'[j].st = proc[j].st
           /\ j \in Jobs \cap Jobs' =>
                /\ Status(j) # "pending" => downloads'[j].status # "pending"
                /\ Status(j) # "downloading"
                   /\ downloads'[j].status = "downloading"
                     => Status(j) = "pending" ]_vars

C37_Witness ==
  /\ downloadQueue = <<>>
  /\ \A j \in Ids : /\ j \in Jobs /\ Status(j) = "completed"
                    /\ proc[j].st = "closed"

\* C38: a deleted job record is never recreated.  Deleted while its id is
\* queued: the dequeue finds no record, spawns no process, and the drain goes
\* on to the next id.  Deleted while downloading: the later progress and
\* terminal updates change nothing in storage and the id stays absent.
C38_DeletedStaysDeleted ==
  [][ \A j \in Ids :
        j < nextId /\ j \notin Jobs =>
          /\ j \notin Jobs'
          /\ \A k \in Jobs \cap Jobs' :
               \/ downloads'[k] = downloads[k]
               \/ ~(\E code \in {-2, 0, 1}, produced \in BOOLEAN :
                      ProcClose(j, code, produced, TRUE))
                  /\ ~ProcError(j, TRUE)
                  /\ \A w \in inflight : w.id = j => ~WriteSettles(w, TRUE)
          /\ \A d \in Ids :
               drain[d].id = j /\ DrainGetDownload(d, TRUE) =>
                 /\ proc' = proc
                 /\ drain'[d].pc = IF downloadQueue # <<>> THEN "delay"
                                   ELSE "done"
          /\ (proc[j].st = "none"
              /\ \A d \in ActiveDrains :
                   drain[d].id = j => drain[d].pc = "getDownload")
             => proc'[j].st = "none" ]_vars

C38_Witness ==
  /\ nextId = 2 /\ Jobs = {}
  /\ proc[1].st = "closed" /\ files = {"a.mp4"}
  /\ inflight = {} /\ chunksSeen > 0

\* C39: deleting one job removes only that job's artifact: every other job
\* that is completed and whose file was on disk before the DELETE still has
\* its file afterwards (and GET /api/downloads/:id/file still serves it), also
\* when both jobs were created from the same title and format.
C39_DeleteKeepsOtherFiles ==
  [][ \A a, b \in Jobs :
        /\ a # b /\ DeleteDownload(a)
        /\ Status(b) = "completed" /\ downloads[b].filename \in files
        => /\ b \in Jobs' /\ downloads'[b].status = "completed"
           /\ downloads'[b].filename \in files' ]_vars

====
